---- MODULE Spec2Model ----
(***************************************************************************)
(* Model of softlearning/policies/gmm.py: the GMMPolicy facade.            *)
(*                                                                         *)
(* State: the policy object's fields (_K, _squash, _qf, _is_deterministic, *)
(* _fixed_h, the _log_pis tensor built by build()), the suspended          *)
(* generator frames of open deterministic() scopes, and a record of the    *)
(* last operation with its arguments and result, which its caller takes    *)
(* before the next operation starts.  Three history variables record how   *)
(* the scopes were used: entered counts the scopes entered, serial holds   *)
(* while every exit and call came from the innermost open scope, aborted   *)
(* holds once a scope was left by an exception.                            *)
(*                                                                         *)
(* Python assert statements are enabled (the interpreter runs without -O). *)
(*                                                                         *)
(* Numbers: actions have one dimension (Da = 1); raw action values are     *)
(* fixed-point hundredths on the grid -200 .. 200, tanh is tabulated on    *)
(* that grid.  An absent Python value (None) is the empty sequence and a   *)
(* present one a one-element sequence.                                     *)
(***************************************************************************)
EXTENDS Integers, Sequences, FiniteSets, TLC

\* ---- bounds ----
MaxK == 2          \* largest number of mixture components K
MaxN == 2          \* largest observation batch size
MaxObs == 1        \* observation rows are drawn from 0 .. MaxObs
MaxLatent == 1     \* latents passed to deterministic() are None or -1 .. MaxLatent
MaxEnters == 1     \* scopes entered in one behaviour of Spec
MaxScopeEnters == 2 \* scopes entered in one behaviour of SpecScope

None == <<>>
Some(x) == <<x>>

Latents == {None} \cup {Some(i) : i \in (-1) .. MaxLatent}
ObsVals == 0 .. MaxObs
Batches == UNION {[1 .. n -> ObsVals] : n \in 1 .. MaxN}
SingleRows == {b \in Batches : Len(b) = 1}
OneBatch == {<<0>>}
QfKinds == {"QAct", "QBatch"}

VARIABLES phase, built, K, squash, qf, log_pis_t,
          is_deterministic, fixed_h, frames, entered, serial, aborted, last

vars == <<phase, built, K, squash, qf, log_pis_t,
          is_deterministic, fixed_h, frames, entered, serial, aborted, last>>

\* ---- numeric helpers ----

\* np.tanh / tf.tanh on the fixed-point grid (hundredths, rounded)
Tanh(x) ==
    CASE x = 0 -> 0
      [] x = 100 -> 76
      [] x = -100 -> -76
      [] x = 200 -> 96
      [] x = -200 -> -96

RECURSIVE SumSeq(_)
SumSeq(s) == IF s = <<>> THEN 0 ELSE s[1] + SumSeq(Tail(s))

\* distribution.mus_t for one observation row: component k's mean, as the
\* network computes it from the row (its weights do not change here)
MusT(o, k) == (((2 * o * (k + 1) + 2 * k + 1) % 5) - 2) * 100

\* mus_t for a whole batch: N x K
MusBatch(observations, k) ==
    [n \in 1 .. Len(observations) |-> [c \in 0 .. k - 1 |-> MusT(observations[n], c)]]

\* `run(self.distribution.mus_t, feed_dict)[0]`: the first batch row
FirstRow_last(rows) == rows[Len(rows)]
FirstRow(rows) == rows[1]

\* `np.tanh(mus) if self._squash else mus`
SquashMus(sq, mus) == [c \in DOMAIN mus |-> IF sq THEN Tanh(mus[c]) ELSE mus[c]]

\* the value function collaborator: scores of the K candidate actions
QfEval(q, observations, acts) ==
    [c \in DOMAIN acts |->
        IF q = "QAct" THEN acts[c]
        ELSE IF SumSeq(observations) % 2 = 0 THEN acts[c] ELSE 0 - acts[c]]

\* np.argmax: the first index of a maximal entry
ArgMax(qs) ==
    CHOOSE c \in DOMAIN qs :
        /\ \A d \in DOMAIN qs : qs[d] <= qs[c]
        /\ \A d \in DOMAIN qs : d < c => qs[d] < qs[c]

\* `if self._fixed_h is not None: h = self._fixed_h else: h = np.argmax(qs)`
SelectH_truthy(fh, qs) == IF fh # None /\ fh # Some(0) THEN fh[1] ELSE ArgMax(qs)
SelectH(fh, qs) == IF fh # None THEN fh[1] ELSE ArgMax(qs)

\* numpy row indexing `a[h, :]` of an array with k rows: negative indices
\* wrap, anything else out of range raises IndexError (None here)
NpIndex(h, k) ==
    IF h \in 0 .. k - 1 THEN Some(h)
    ELSE IF h \in (0 - k) .. -1 THEN Some(h + k)
    ELSE None

\* the two guards at the top of the deterministic branch
DetFailure_noassert(q, with_log_pis) ==
    IF q = "None" THEN "AttributeError" ELSE "ok"
DetFailure(q, with_log_pis) ==
    IF q = "None" THEN "AttributeError"
    ELSE IF with_log_pis THEN "AssertionError"
    ELSE "ok"

Failed(outcome) ==
    [outcome |-> outcome, actions |-> <<>>, raw_actions |-> <<>>,
     h |-> None, mus |-> <<>>, qs |-> <<>>, log_pis |-> None]

\* the deterministic branch of get_actions
DetGetActions(k, sq, q, fh, observations, with_log_pis, with_raw_actions) ==
    IF DetFailure(q, with_log_pis) # "ok"
    THEN Failed(DetFailure(q, with_log_pis))
    ELSE LET mus == FirstRow(MusBatch(observations, k))
             squashed_mus == SquashMus(sq, mus)
             qs == QfEval(q, observations, squashed_mus)
             h == SelectH(fh, qs)
             row == NpIndex(h, k)
         IN IF row = None
            THEN [Failed("IndexError") EXCEPT !.h = Some(h), !.mus = mus, !.qs = qs]
            ELSE [outcome |-> "ok",
                  actions |-> <<squashed_mus[row[1]]>>,
                  raw_actions |-> IF with_raw_actions THEN <<mus[row[1]]>> ELSE <<>>,
                  h |-> Some(h), mus |-> mus, qs |-> qs, log_pis |-> None]

\* the stochastic branch: NNPolicy.get_actions runs the tensors of build()
\* for the whole batch, with component z sampled
NNGetActions(k, sq, lp, observations, with_log_pis, with_raw_actions, z) ==
    LET rows == MusBatch(observations, k)
    IN [outcome |-> "ok",
        actions |-> [n \in 1 .. Len(observations) |-> SquashMus(sq, rows[n])[z]],
        raw_actions |-> IF with_raw_actions
                        THEN [n \in 1 .. Len(observations) |-> rows[n][z]]
                        ELSE <<>>,
        h |-> None, mus |-> <<>>, qs |-> <<>>,
        log_pis |-> IF with_log_pis THEN lp ELSE None]

\* ---- log-probability tensors ----

\* actions_for: `if self._squash: log_pis -= self._squash_correction(...)`
ActionsForLogPis(sq) == [base |-> "log_p_t", corrected |-> sq]
\* build: `self._log_pis = self.distribution.log_p_t`
BuildLogPis(sq) == [base |-> "log_p_t", corrected |-> FALSE]
\* log_diagnostics: `log_p_t - self._squash_correction(x_t)`
DiagnosticsLogPis(sq) == [base |-> "log_p_t", corrected |-> TRUE]

\* ---- scope helpers ----

\* `assert not reparameterize` stands before `self.build()`
BuildReached_always(reparameterize) == TRUE
BuildReached(reparameterize) == ~reparameterize

\* `if latent is not None: self._fixed_h = latent`
EnterFixedH_always(latent, cur) == latent
EnterFixedH(latent, cur) == IF latent # None THEN latent ELSE cur

\* `self._is_deterministic = was_deterministic`
ExitIsDet_false(frame) == FALSE
ExitIsDet(frame) == frame.was_deterministic

\* `self._fixed_h = old_fixed_h`
ExitFixedH_keep(frame, cur) == cur
ExitFixedH(frame, cur) == frame.old_fixed_h

\* no call is in progress and no result or exception is waiting for its caller
Idle == last.op = "none"

RemoveAt(s, i) == SubSeq(s, 1, i - 1) \o SubSeq(s, i + 1, Len(s))

\* ---- initial state: before the constructor runs ----
Init ==
    /\ phase = "new"
    /\ built = FALSE
    /\ K = 0
    /\ squash = FALSE
    /\ qf = "None"
    /\ log_pis_t = None
    /\ is_deterministic = FALSE
    /\ fixed_h = None
    /\ frames = <<>>
    /\ entered = 0
    /\ serial = TRUE
    /\ aborted = FALSE
    /\ last = [op |-> "none"]

\* ---- GMMPolicy.__init__ ----
Construct(squashes, qfs) ==
    \E k \in 1 .. MaxK, sq \in squashes, reparameterize \in BOOLEAN,
       q \in qfs :
        /\ phase = "new"
        /\ Idle
        /\ K' = k
        /\ squash' = sq
        /\ qf' = q
        /\ is_deterministic' = FALSE
        /\ fixed_h' = None
        /\ built' = BuildReached(reparameterize)
        /\ log_pis_t' = IF built' THEN Some(BuildLogPis(sq)) ELSE log_pis_t
        /\ phase' = IF reparameterize THEN "failed" ELSE "ready"
        /\ last' = [op |-> "init", reparameterize |-> reparameterize,
                    outcome |-> IF reparameterize THEN "AssertionError" ELSE "ok"]
        /\ UNCHANGED <<frames, entered, serial, aborted>>

\* ---- GMMPolicy.get_actions ----
\* caller = 0: code outside every scope; caller = i: the holder of frames[i]
GetActions(callers, batches, raws) ==
    \E caller \in callers, observations \in batches,
       with_log_pis \in BOOLEAN, with_raw_actions \in raws, z \in 0 .. MaxK - 1 :
        /\ phase = "ready"
        /\ Idle
        /\ z < K
        /\ is_deterministic => z = 0
        /\ LET r == IF is_deterministic
                    THEN DetGetActions(K, squash, qf, fixed_h,
                                       observations, with_log_pis, with_raw_actions)
                    ELSE NNGetActions(K, squash, log_pis_t,
                                      observations, with_log_pis, with_raw_actions, z)
           IN last' = [op |-> "get_actions", caller |-> caller,
                       selected |-> IF caller = 0 THEN FALSE
                                    ELSE frames[caller].set_deterministic,
                       det |-> is_deterministic,
                       observations |-> observations,
                       with_log_pis |-> with_log_pis,
                       with_raw_actions |-> with_raw_actions,
                       res |-> r]
        /\ serial' = (serial /\ caller = Len(frames))
        /\ UNCHANGED <<phase, built, K, squash, qf, log_pis_t,
                       is_deterministic, fixed_h, frames, entered, aborted>>

\* ---- GMMPolicy.actions_for ----
ActionsFor ==
    \E with_log_pis \in BOOLEAN :
        /\ phase = "ready"
        /\ Idle
        /\ last' = [op |-> "actions_for", with_log_pis |-> with_log_pis,
                    log_pis |-> IF with_log_pis THEN Some(ActionsForLogPis(squash))
                                ELSE None]
        /\ UNCHANGED <<phase, built, K, squash, qf, log_pis_t,
                       is_deterministic, fixed_h, frames, entered, serial, aborted>>

\* ---- GMMPolicy.log_diagnostics ----
LogDiagnostics ==
    /\ phase = "ready"
    /\ Idle
    /\ last' = [op |-> "log_diagnostics", log_pis |-> Some(DiagnosticsLogPis(squash))]
    /\ UNCHANGED <<phase, built, K, squash, qf, log_pis_t,
                   is_deterministic, fixed_h, frames, entered, serial, aborted>>

\* ---- GMMPolicy.deterministic: entry, up to the yield ----
EnterScope(maxEnters) ==
    \E set_deterministic \in BOOLEAN, latent \in Latents :
        /\ phase = "ready"
        /\ Idle
        /\ entered < maxEnters
        /\ entered' = entered + 1
        /\ frames' = Append(frames,
                [was_deterministic |-> is_deterministic,
                 old_fixed_h |-> fixed_h,
                 set_deterministic |-> set_deterministic,
                 latent |-> latent,
                 pre |-> <<is_deterministic, fixed_h>>])
        /\ is_deterministic' = set_deterministic
        /\ fixed_h' = EnterFixedH(latent, fixed_h)
        /\ last' = [op |-> "enter", set_deterministic |-> set_deterministic,
                    latent |-> latent, pre |-> <<is_deterministic, fixed_h>>]
        /\ UNCHANGED <<phase, built, K, squash, qf, log_pis_t, serial, aborted>>

\* ---- GMMPolicy.deterministic: the with-body ends normally; the generator
\* resumes after the yield ----
ExitScope ==
    \E i \in 1 .. Len(frames) :
        /\ Idle
        /\ is_deterministic' = ExitIsDet(frames[i])
        /\ fixed_h' = ExitFixedH(frames[i], fixed_h)
        /\ frames' = RemoveAt(frames, i)
        /\ serial' = (serial /\ i = Len(frames))
        /\ last' = [op |-> "exit", normal |-> TRUE, frame |-> frames[i],
                    during |-> <<is_deterministic, fixed_h>>]
        /\ UNCHANGED <<phase, built, K, squash, qf, log_pis_t, entered, aborted>>

\* ---- GMMPolicy.deterministic: get_actions raised inside the with-body
\* and the exception is thrown into the generator at the yield, which has
\* no try/finally: the generator ends without running the lines after it ----
ExitScopeError ==
    /\ last.op = "get_actions"
    /\ last.res.outcome # "ok"
    /\ last.caller \in 1 .. Len(frames)
    /\ frames' = RemoveAt(frames, last.caller)
    /\ serial' = (serial /\ last.caller = Len(frames))
    /\ aborted' = TRUE
    /\ last' = [op |-> "exit", normal |-> FALSE, frame |-> frames[last.caller],
                during |-> <<is_deterministic, fixed_h>>]
    /\ UNCHANGED <<phase, built, K, squash, qf, log_pis_t,
                   is_deterministic, fixed_h, entered>>

\* ---- the caller takes the value returned by the last call, or handles
\* the exception it raised, and goes on ----
Return ==
    /\ ~Idle
    /\ last' = [op |-> "none"]
    /\ UNCHANGED <<phase, built, K, squash, qf, log_pis_t,
                   is_deterministic, fixed_h, frames, entered, serial, aborted>>

Innermost == {Len(frames)}
AnyCaller == 0 .. Len(frames)

\* every construction argument, batches of one row, calls from the
\* innermost open scope
Next ==
    \/ Construct(BOOLEAN, {"None"} \cup QfKinds)
    \/ GetActions(Innermost, SingleRows, BOOLEAN)
    \/ ActionsFor
    \/ LogDiagnostics
    \/ EnterScope(MaxEnters)
    \/ ExitScope
    \/ ExitScopeError
    \/ Return

Spec == Init /\ [][Next]_vars

\* batches of every size given to a squashing policy with a value function
NextBatch ==
    \/ Construct({TRUE}, QfKinds)
    \/ GetActions(Innermost, Batches, {TRUE})
    \/ ActionsFor
    \/ LogDiagnostics
    \/ EnterScope(MaxEnters)
    \/ ExitScope
    \/ ExitScopeError
    \/ Return

SpecBatch == Init /\ [][NextBatch]_vars

\* several scopes, nested or interleaved, around calls on one batch by
\* any scope holder
NextScope ==
    \/ Construct({TRUE}, {"None", "QAct"})
    \/ GetActions(AnyCaller, OneBatch, {FALSE})
    \/ ActionsFor
    \/ LogDiagnostics
    \/ EnterScope(MaxScopeEnters)
    \/ ExitScope
    \/ ExitScopeError
    \/ Return

SpecScope == Init /\ [][NextScope]_vars

\* ---- properties ----

IsGetActions == last.op = "get_actions"
IsExit == last.op = "exit"
IsEnter == last.op = "enter"
State == <<is_deterministic, fixed_h>>

\* C1: after a deterministic() scope is left normally, _is_deterministic
\* and _fixed_h equal the values they had immediately before that scope
\* was entered, whatever set_deterministic and latent it was entered with.
C1_RestoredOnNormalExit ==
    (IsExit /\ last.normal) => State = last.frame.pre

\* a nested scope that changed both fields has been left normally
C1_Witness ==
    /\ IsExit /\ last.normal /\ serial /\ ~aborted
    /\ Len(frames) = 1
    /\ last.frame.pre[2] # None
    /\ last.frame.latent # None
    /\ last.frame.latent # last.frame.pre[2]
    /\ last.frame.set_deterministic # last.frame.pre[1]
    /\ last.during = <<last.frame.set_deterministic, last.frame.latent>>

\* C2: after a deterministic() scope is left because the enclosed
\* get_actions raised, _is_deterministic and _fixed_h equal the values
\* they had before the scope was entered.
C2_RestoredOnErrorExit ==
    (IsExit /\ ~last.normal) => State = last.frame.pre

\* C3: deterministic get_actions fails without returning an action when no
\* value function was supplied (whatever the flags) and when
\* with_log_pis is set (whatever the value function); stochastic
\* get_actions raises neither failure.
C3_DeterministicFailures ==
    IsGetActions =>
        /\ (last.det /\ qf = "None") =>
                /\ last.res.outcome = "AttributeError"
                /\ last.res.actions = <<>> /\ last.res.raw_actions = <<>>
        /\ (last.det /\ last.with_log_pis) =>
                /\ last.res.outcome \in {"AttributeError", "AssertionError"}
                /\ last.res.actions = <<>> /\ last.res.raw_actions = <<>>
        /\ ~last.det => last.res.outcome \notin {"AttributeError", "AssertionError"}

\* a log-probability was requested in the deterministic state of a policy
\* that has a value function
C3_Witness ==
    /\ IsGetActions /\ last.det /\ qf # "None" /\ last.with_log_pis
    /\ last.res.outcome = "AssertionError"

\* C4: construction with reparameterize=True fails, and build() has not
\* run when it fails: no placeholder, sampler, network or _log_pis tensor
\* exists.
C4_ReparameterizeFailsBeforeBuild ==
    /\ (last.op = "init" /\ last.reparameterize) =>
            phase = "failed" /\ last.outcome = "AssertionError"
    /\ phase = "failed" => (~built /\ log_pis_t = None)

C4_Witness ==
    /\ phase = "failed" /\ last.op = "init" /\ last.reparameterize
    /\ K = MaxK /\ qf # "None"

\* the first batch row's means, their squashed values and their scores,
\* written out from the network and the value function
RowMus(o) == [c \in 0 .. K - 1 |-> MusT(o, c)]
RowActs(o) == [c \in 0 .. K - 1 |-> IF squash THEN Tanh(RowMus(o)[c]) ELSE RowMus(o)[c]]
RowQs(obs) == QfEval(qf, obs, RowActs(obs[1]))
Returned(c) ==
    /\ last.res.outcome = "ok"
    /\ last.res.actions = <<RowActs(last.observations[1])[c]>>
    /\ last.res.raw_actions =
            IF last.with_raw_actions THEN <<RowMus(last.observations[1])[c]>> ELSE <<>>

\* C5: deterministic get_actions with a value function returns the
\* (squashed, if squash) mean of a component of maximal score when no index
\* is pinned, and the mean of the pinned component when one is pinned
\* (0 included) whatever the scores; the raw action is the unsquashed mean
\* of the same component.
C5_SelectedComponent ==
    (IsGetActions /\ last.det /\ qf # "None" /\ ~last.with_log_pis) =>
        IF fixed_h = None
        THEN \E c \in 0 .. K - 1 :
                /\ \A d \in 0 .. K - 1 : RowQs(last.observations)[d] <= RowQs(last.observations)[c]
                /\ Returned(c)
        ELSE /\ fixed_h[1] \in 0 .. K - 1 => Returned(fixed_h[1])
             /\ last.res.outcome = "ok" => Returned((fixed_h[1] + K) % K)

\* index 0 is pinned while the value function prefers component 1
C5_Witness ==
    /\ IsGetActions /\ last.det /\ last.res.outcome = "ok"
    /\ fixed_h = Some(0) /\ K >= 2 /\ squash /\ last.with_raw_actions
    /\ RowQs(last.observations)[1] > RowQs(last.observations)[0]
    /\ last.res.actions # last.res.raw_actions

ReportedLogPis ==
    IF last.op \in {"actions_for", "log_diagnostics"} THEN last.log_pis
    ELSE IF IsGetActions THEN last.res.log_pis
    ELSE None

\* C6: every reported log-probability has the squash correction subtracted
\* if and only if squash is enabled.
C6_CorrectionIffSquash ==
    ReportedLogPis # None => ReportedLogPis[1].corrected = squash

PastGuards == IsGetActions /\ last.det /\ last.res.outcome \in {"ok", "IndexError"}

SameCall(b) ==
    DetGetActions(K, squash, qf, fixed_h, b,
                  last.with_log_pis, last.with_raw_actions)

\* C7 as stated: batches that agree on their first row yield the same
\* selected component and the same action, of exactly one row.
C7_LaterRowsNeverMatter ==
    PastGuards =>
        /\ last.res.outcome = "ok" => Len(last.res.actions) = 1
        /\ \A b \in Batches :
                b[1] = last.observations[1] =>
                    /\ SameCall(b).h = last.res.h
                    /\ SameCall(b).actions = last.res.actions

\* C7 as amended: the candidate means are those of the first batch row and
\* a returned action has exactly one row; batches that agree on their first
\* row yield the same component and action when an index is pinned or the
\* value function gives them the same scores.
C7_FirstRowMeansOnly ==
    PastGuards =>
        /\ last.res.outcome = "ok" => Len(last.res.actions) = 1
        /\ last.res.mus = RowMus(last.observations[1])
        /\ \A b \in Batches :
                b[1] = last.observations[1] =>
                    /\ SameCall(b).mus = last.res.mus
                    /\ (fixed_h # None \/ SameCall(b).qs = last.res.qs) =>
                            /\ SameCall(b).h = last.res.h
                            /\ SameCall(b).outcome = last.res.outcome
                            /\ SameCall(b).actions = last.res.actions
                            /\ SameCall(b).raw_actions = last.res.raw_actions

\* a batch of two rows whose rows have different means
C7_Witness ==
    /\ PastGuards /\ last.res.outcome = "ok" /\ fixed_h = None
    /\ Len(last.observations) >= 2
    /\ RowMus(last.observations[2]) # RowMus(last.observations[1])
    /\ RowActs(last.observations[2])[last.res.h[1]] # last.res.actions[1]

\* C8: the component index deterministic get_actions uses is an integer
\* in [0, K), whether it is the argmax or a pinned latent.
C8_IndexInRange ==
    (IsGetActions /\ last.det /\ last.res.h # None) => last.res.h[1] \in 0 .. K - 1

C10_NoneLatentKeepsPin ==
    /\ IsEnter =>
            /\ last.latent = None => fixed_h = last.pre[2]
            /\ last.latent # None => fixed_h = last.latent
            /\ last.pre[2] # None => fixed_h # None
    /\ (serial /\ ~aborted /\ frames # <<>> /\ frames[Len(frames)].latent = None) =>
            fixed_h = frames[Len(frames)].pre[2]
    /\ (IsGetActions /\ last.det /\ last.res.h # None /\ fixed_h # None) =>
            last.res.h = fixed_h

\* get_actions inside a latent=None scope nested in a scope that pinned 0,
\* while the value function prefers component 1
C10_Witness ==
    /\ IsGetActions /\ last.det /\ last.res.outcome = "ok"
    /\ serial /\ ~aborted /\ Len(frames) = 2 /\ last.caller = 2
    /\ frames[1].latent = Some(0) /\ frames[2].latent = None
    /\ last.res.h = Some(0)
    /\ K >= 2 /\ ArgMax(last.res.qs) # 0

TypeOK ==
    /\ phase \in {"new", "failed", "ready"}
    /\ built \in BOOLEAN
    /\ K \in 0 .. MaxK
    /\ is_deterministic \in BOOLEAN
    /\ fixed_h \in Latents
====
